---- MODULE Spec2Model ----
(***************************************************************************)
(* Model of the phone-invoice tool: the sqlite3 wrapper class Database     *)
(* (src/database/database.py) and the cost calculation and invoice flows   *)
(* built on it (src/main.py).                                              *)
(*                                                                         *)
(* The store is one sqlite file holding the table "invoices".  A           *)
(* connection sees its own working copy (work); the durable contents       *)
(* (store) change only when the connection commits.  Python's sqlite3      *)
(* module opens a transaction implicitly before INSERT/UPDATE/DELETE and   *)
(* leaves it open until commit(), which is what makes update and delete    *)
(* pending.                                                                *)
(***************************************************************************)
EXTENDS Integers, Sequences, FiniteSets, TLC

(***************************************************************************)
(* Bounds of the model.                                                    *)
(***************************************************************************)
\* largest id the AUTOINCREMENT counter may hand out in an explored run
MaxId == 2
\* largest number of connections that may be alive at once in the model
MaxConn == 2
\* numerals the text-to-integer conversion recognises are 0..MaxNumeral
MaxNumeral == 100

None == 0

(***************************************************************************)
(* SQL values.  Every value carries its storage class; n holds an integer  *)
(* for class "int" and hundredths for class "real".                        *)
(***************************************************************************)
Null == [t |-> "null", s |-> "", n |-> 0]

IntV(i) == [t |-> "int", s |-> "", n |-> i]

RealV(c) == [t |-> "real", s |-> "", n |-> c]

TextV(x) == [t |-> "text", s |-> x, n |-> 0]

\* the numeric value of an int or real in hundredths
Cents(v) == IF v.t = "int" THEN v.n * 100 ELSE v.n

IsNumeral(x) == \E i \in 0..MaxNumeral : ToString(i) = x

NumeralValue(x) == CHOOSE i \in 0..MaxNumeral : ToString(i) = x

\* how sqlite renders a number when a TEXT column receives it
NumberText(v) ==
    IF v.t = "int" THEN ToString(v.n)
    ELSE ToString(v.n \div 100) \o "." \o
         (IF v.n % 10 = 0 THEN ToString((v.n % 100) \div 10)
          ELSE ToString((v.n % 100) \div 10) \o ToString(v.n % 10))

(***************************************************************************)
(* The table created by init_database.                                     *)
(***************************************************************************)
InvoicesTable == "invoices"

Columns == <<"id", "company_name", "company_num", "phone_type", "phone_opt",
             "quantity", "vat", "total_cost", "total_cost_vat">>

ColumnSet == {Columns[i] : i \in 1..Len(Columns)}

Affinity(col) ==
    IF col \in {"id", "phone_opt", "quantity"} THEN "INTEGER"
    ELSE IF col \in {"vat", "total_cost", "total_cost_vat"} THEN "REAL"
    ELSE "TEXT"

NotNullColumns == ColumnSet \ {"id"}

UniqueColumns_without_name == {"id", "company_num"}

UniqueColumns == {"id", "company_name", "company_num"}

\* column affinity applied to a value that is stored or compared
ApplyAffinity(aff, v) ==
    IF v.t = "null" THEN v
    ELSE IF aff = "TEXT"
         THEN (IF v.t = "text" THEN v ELSE TextV(NumberText(v)))
    ELSE IF v.t = "text"
         THEN (IF IsNumeral(v.s)
               THEN (IF aff = "REAL" THEN RealV(NumeralValue(v.s) * 100)
                     ELSE IntV(NumeralValue(v.s)))
               ELSE v)
    ELSE IF aff = "REAL" THEN RealV(Cents(v))
    ELSE IF v.t = "real" /\ v.n % 100 = 0 THEN IntV(v.n \div 100)
    ELSE v

\* two stored values are the same value
SameValue(a, b) ==
    /\ a.t # "null"
    /\ b.t # "null"
    /\ IF a.t = "text" \/ b.t = "text"
       THEN a.t = b.t /\ a.s = b.s
       ELSE Cents(a) = Cents(b)

\* the comparison  col = ?  with the parameter p bound to the placeholder
SqlEq(col, stored, p) == SameValue(stored, ApplyAffinity(Affinity(col), p))

(***************************************************************************)
(* Python dicts are sequences of <<key, value>> pairs in insertion order.  *)
(***************************************************************************)
Keys(d) == [i \in 1..Len(d) |-> d[i][1]]

Values(d) == [i \in 1..Len(d) |-> d[i][2]]

Range(f) == {f[i] : i \in DOMAIN f}

\* the table of a file in which init_database never ran
NoTable == [exists |-> FALSE, rows |-> {}, seq |-> 0]

EmptyTable == [exists |-> TRUE, rows |-> {}, seq |-> 0]

MaxOf(S) == IF S = {} THEN 0 ELSE CHOOSE m \in S : \A x \in S : x <= m

RECURSIVE SortById(_)
\* rows in rowid order, the order in which SELECT * scans the table
SortById(rows) ==
    IF rows = {} THEN <<>>
    ELSE LET first == CHOOSE r \in rows : \A q \in rows : r["id"].n <= q["id"].n
         IN  <<first>> \o SortById(rows \ {first})

(***************************************************************************)
(* The statements the wrapper hands to sqlite.  A statement is the SQL     *)
(* text reduced to what decides its meaning: its kind, its table, the      *)
(* columns of its column list or SET list (cols) and the columns of its    *)
(* WHERE clause (where), each followed by one placeholder.  Parameters are *)
(* bound to the placeholders by position.                                  *)
(***************************************************************************)
Stmt(kind, table, cols, where) ==
    [kind |-> kind, table |-> table, cols |-> cols, where |-> where]

Result(exc, tbl, rows) == [exc |-> exc, tbl |-> tbl, rows |-> rows]

\* errors sqlite reports while preparing a statement over the columns named
PrepareError(tbl, stmt, params) ==
    IF stmt.table # InvoicesTable \/ ~tbl.exists THEN "OperationalError"
    ELSE IF \E i \in 1..Len(stmt.cols) : stmt.cols[i] \notin ColumnSet
         THEN "OperationalError"
    ELSE IF \E i \in 1..Len(stmt.where) : stmt.where[i] \notin ColumnSet
         THEN "OperationalError"
    ELSE IF Len(params) # Len(stmt.cols) + Len(stmt.where)
         THEN "ProgrammingError"
    ELSE "none"

\* the row satisfies every  col = ?  of the WHERE clause; the placeholders
\* of the WHERE clause follow the first `skip` placeholders of the statement
WhereHolds(row, where, params, skip) ==
    \A i \in 1..Len(where) : SqlEq(where[i], row[where[i]], params[skip + i])

\* NOT NULL, the INTEGER PRIMARY KEY type rule and UNIQUE over a set of rows
ViolatesConstraints(rows) ==
    \/ \E r \in rows : \E c \in NotNullColumns : r[c].t = "null"
    \/ \E r \in rows : r["id"].t # "int"
    \/ \E r1, r2 \in rows :
          r1 # r2 /\ \E u \in UniqueColumns : SameValue(r1[u], r2[u])

ExecInsert(tbl, stmt, params) ==
    LET given(c) == \E i \in 1..Len(stmt.cols) : stmt.cols[i] = c
        at(c) == CHOOSE i \in 1..Len(stmt.cols) : stmt.cols[i] = c
        raw == [c \in ColumnSet |->
                  IF given(c) THEN ApplyAffinity(Affinity(c), params[at(c)])
                  ELSE Null]
        \* AUTOINCREMENT: one more than the largest id ever used
        auto == MaxOf({tbl.seq} \cup {r["id"].n : r \in tbl.rows}) + 1
        row == IF raw["id"].t = "null"
               THEN [raw EXCEPT !["id"] = IntV(auto)] ELSE raw
    IN  IF PrepareError(tbl, stmt, params) # "none"
        THEN Result(PrepareError(tbl, stmt, params), tbl, <<>>)
        ELSE IF Len(stmt.cols) = 0 THEN Result("OperationalError", tbl, <<>>)
        ELSE IF ViolatesConstraints({row})
                \/ \E r \in tbl.rows : \E u \in UniqueColumns :
                      SameValue(r[u], row[u])
             THEN Result("IntegrityError", tbl, <<>>)
        ELSE Result("none",
                    [tbl EXCEPT !.rows = tbl.rows \cup {row},
                                !.seq = MaxOf({tbl.seq, row["id"].n})],
                    <<>>)

ExecSelect(tbl, stmt, params) ==
    IF PrepareError(tbl, stmt, params) # "none"
    THEN Result(PrepareError(tbl, stmt, params), tbl, <<>>)
    ELSE Result("none", tbl,
                SortById({r \in tbl.rows : WhereHolds(r, stmt.where, params, 0)}))

ExecDelete(tbl, stmt, params) ==
    IF PrepareError(tbl, stmt, params) # "none"
    THEN Result(PrepareError(tbl, stmt, params), tbl, <<>>)
    ELSE IF Len(stmt.where) = 0 THEN Result("OperationalError", tbl, <<>>)
    ELSE Result("none",
                [tbl EXCEPT !.rows =
                    {r \in tbl.rows : ~WhereHolds(r, stmt.where, params, 0)}],
                <<>>)

ExecUpdate(tbl, stmt, params) ==
    LET set(c) == \E i \in 1..Len(stmt.cols) : stmt.cols[i] = c
        at(c) == CHOOSE i \in 1..Len(stmt.cols) : stmt.cols[i] = c
        hit(r) == WhereHolds(r, stmt.where, params, Len(stmt.cols))
        new(r) == IF hit(r)
                  THEN [c \in ColumnSet |->
                          IF set(c)
                          THEN ApplyAffinity(Affinity(c), params[at(c)])
                          ELSE r[c]]
                  ELSE r
        after == {new(r) : r \in tbl.rows}
    IN  IF PrepareError(tbl, stmt, params) # "none"
        THEN Result(PrepareError(tbl, stmt, params), tbl, <<>>)
        ELSE IF Len(stmt.cols) = 0 \/ Len(stmt.where) = 0
             THEN Result("OperationalError", tbl, <<>>)
        ELSE IF Cardinality(after) # Cardinality(tbl.rows)
                \/ ViolatesConstraints(after)
             THEN Result("IntegrityError", tbl, <<>>)
        ELSE Result("none", [tbl EXCEPT !.rows = after], <<>>)

\* CREATE TABLE invoices (...), an error when the table exists
ExecCreate_without_if_not_exists(tbl, stmt, params) ==
    IF tbl.exists THEN Result("OperationalError", tbl, <<>>)
    ELSE Result("none", EmptyTable, <<>>)

\* CREATE TABLE IF NOT EXISTS invoices (...)
ExecCreate(tbl, stmt, params) ==
    IF tbl.exists THEN Result("none", tbl, <<>>)
    ELSE Result("none", EmptyTable, <<>>)

\* cursor.execute(sql, params) followed, for a SELECT, by fetchall()
Execute(tbl, stmt, params) ==
    IF stmt.kind = "insert" THEN ExecInsert(tbl, stmt, params)
    ELSE IF stmt.kind = "select" THEN ExecSelect(tbl, stmt, params)
    ELSE IF stmt.kind = "delete" THEN ExecDelete(tbl, stmt, params)
    ELSE IF stmt.kind = "update" THEN ExecUpdate(tbl, stmt, params)
    ELSE IF stmt.kind = "create" THEN ExecCreate(tbl, stmt, params)
    ELSE Result("OperationalError", tbl, <<>>)

(***************************************************************************)
(* class Database.  A handle d holds the two fields of the object          *)
(* (connection, cursor) together with what it acts on: the connections     *)
(* alive in the process (live), the contents its transaction sees (work)   *)
(* and the committed contents of the file (store).  Every method returns   *)
(* the handle after the call, the exception it raised ("none" when it      *)
(* returned) and its return value.                                         *)
(***************************************************************************)
Outcome(d, exc, ret) == [d |-> d, exc |-> exc, ret |-> ret]

\* the value v is computed once and handed to the rest of the method, F
Once(v, F(_)) == CHOOSE r \in {F(x) : x \in {v}} : TRUE

\* Database(db_file): a handle that was never opened
NewDatabase(live, store) ==
    [connection |-> None, cursor |-> None, live |-> live,
     work |-> store, store |-> store]

\* sqlite3.connect(db_file): a connection object distinct from the live ones
Connect(live) == CHOOSE c \in 1..(MaxConn + 1) : c \notin live

\* open() that connects again although a connection is held
open_always_connects(d) ==
    LET c == Connect(d.live)
    IN  Outcome([d EXCEPT !.connection = c, !.cursor = c,
                          !.live = d.live \cup {c}, !.work = d.store],
                "none", <<>>)

open(d) ==
    IF d.connection = None
    THEN LET c == Connect(d.live)
         IN  Outcome([d EXCEPT !.connection = c, !.cursor = c,
                               !.live = d.live \cup {c}, !.work = d.store],
                     "none", <<>>)
    ELSE Outcome(d, "none", <<>>)

commit(d) ==
    IF d.connection # None
    THEN Outcome([d EXCEPT !.store = d.work], "none", <<>>)
    ELSE Outcome(d, "none", <<>>)

\* close() that releases the connection without committing: sqlite rolls
\* the open transaction back
close_without_commit(d) ==
    IF d.connection # None
    THEN Outcome([d EXCEPT !.live = d.live \ {d.connection},
                           !.connection = None, !.cursor = None,
                           !.work = d.store],
                 "none", <<>>)
    ELSE Outcome(d, "none", <<>>)

\* close() that forgets to drop its cursor
close_keeps_cursor(d) ==
    IF d.connection # None
    THEN Once(commit(d).d, LAMBDA c :
              Outcome([c EXCEPT !.live = c.live \ {c.connection},
                                !.connection = None, !.work = c.store],
                      "none", <<>>))
    ELSE Outcome(d, "none", <<>>)

close(d) ==
    IF d.connection # None
    THEN Once(commit(d).d, LAMBDA c :
              Outcome([c EXCEPT !.live = c.live \ {c.connection},
                                !.connection = None, !.cursor = None,
                                !.work = c.store],
                      "none", <<>>))
    ELSE Outcome(d, "none", <<>>)

\* execute that opens the handle when it has no cursor
CursorExecute_opens_implicitly(d, stmt, params) ==
    Once(open(d).d, LAMBDA o :
    Once(Execute(o.work, stmt, params), LAMBDA r :
         Outcome([o EXCEPT !.work = r.tbl,
                           !.store = IF stmt.kind = "create"
                                        /\ o.work = o.store
                                     THEN r.tbl ELSE o.store],
                 r.exc, r.rows)))

\* self.cursor.execute(sql, params); on a handle without cursor the
\* attribute access on None raises AttributeError.  The sqlite3 module
\* begins a transaction before INSERT, UPDATE and DELETE only: CREATE TABLE
\* run while nothing is pending is durable at once.
CursorExecute(d, stmt, params) ==
    IF d.cursor = None THEN Outcome(d, "AttributeError", <<>>)
    ELSE Once(Execute(d.work, stmt, params), LAMBDA r :
              Outcome([d EXCEPT !.work = r.tbl,
                                !.store = IF stmt.kind = "create"
                                             /\ d.work = d.store
                                          THEN r.tbl ELSE d.store],
                      r.exc, r.rows))

\* insert that leaves the commit to the caller
insert_without_commit(d, table, data) ==
    Once(CursorExecute(d, Stmt("insert", table, Keys(data), <<>>),
                       Values(data)),
         LAMBDA x : Outcome(x.d, x.exc, <<>>))

\* insert that logs the error and returns
insert_swallows_error(d, table, data) ==
    Once(CursorExecute(d, Stmt("insert", table, Keys(data), <<>>),
                       Values(data)),
         LAMBDA x : IF x.exc = "none"
                    THEN Outcome(commit(x.d).d, "none", <<>>)
                    ELSE Outcome(x.d, "none", <<>>))

\* insert that makes only its own row durable
insert_commits_own_row(d, table, data) ==
    Once(CursorExecute(d, Stmt("insert", table, Keys(data), <<>>),
                       Values(data)),
         LAMBDA x : IF x.exc = "none"
                    THEN Outcome([x.d EXCEPT !.store =
                                     [d.store EXCEPT
                                        !.rows = d.store.rows
                                                 \cup (x.d.work.rows
                                                       \ d.work.rows),
                                        !.seq = x.d.work.seq]],
                                 "none", <<>>)
                    ELSE Outcome(x.d, x.exc, <<>>))

insert(d, table, data) ==
    LET sql == Stmt("insert", table, Keys(data), <<>>)
    IN  Once(CursorExecute(d, sql, Values(data)),
             LAMBDA x : IF x.exc = "none"
                        THEN Outcome(commit(x.d).d, "none", <<>>)
                        ELSE Outcome(x.d, x.exc, <<>>))

query(d, sql_query, params) ==
    Once(CursorExecute(d, sql_query, params),
         LAMBDA x : IF x.exc = "none" THEN Outcome(x.d, "none", x.ret)
                    ELSE Outcome(x.d, x.exc, <<>>))

\* search that drops the WHERE clause
search_ignores_filter(d, table, search_query) ==
    query(d, Stmt("select", table, <<>>, <<>>), <<>>)

search(d, table, search_query) ==
    LET sql == IF Len(search_query) > 0
               THEN Stmt("select", table, <<>>, Keys(search_query))
               ELSE Stmt("select", table, <<>>, <<>>)
    IN  query(d, sql, IF Len(search_query) > 0 THEN Values(search_query)
                      ELSE <<>>)

delete(d, table, search_query) ==
    LET sql == Stmt("delete", table, <<>>, Keys(search_query))
        keys == [i \in 1..Len(search_query) |-> TextV(Keys(search_query)[i])]
    IN  Once(CursorExecute(d, sql, keys),
             LAMBDA x : Outcome(x.d, x.exc, <<>>))

\* update that commits as insert does
update_then_commit(d, table, update_data, search_query) ==
    LET sql == Stmt("update", table, Keys(update_data), Keys(search_query))
    IN  Once(CursorExecute(d, sql,
                           Values(update_data) \o Values(search_query)),
             LAMBDA x : IF x.exc = "none"
                        THEN Outcome(commit(x.d).d, "none", <<>>)
                        ELSE Outcome(x.d, x.exc, <<>>))

\* update that binds the values of the where mapping first
update_where_first(d, table, update_data, search_query) ==
    LET sql == Stmt("update", table, Keys(update_data), Keys(search_query))
    IN  Once(CursorExecute(d, sql,
                           Values(search_query) \o Values(update_data)),
             LAMBDA x : Outcome(x.d, x.exc, <<>>))

update(d, table, update_data, search_query) ==
    LET sql == Stmt("update", table, Keys(update_data), Keys(search_query))
    IN  Once(CursorExecute(d, sql,
                           Values(update_data) \o Values(search_query)),
             LAMBDA x : Outcome(x.d, x.exc, <<>>))

enter(d) == Outcome(open(d).d, "none", <<>>)

\* __exit__ that closes only when the block ended normally
exit_closes_on_success_only(d, exc_type) ==
    IF exc_type = "none" THEN Outcome(close(d).d, "none", <<>>)
    ELSE Outcome(d, "none", <<>>)

\* __exit__ that rolls back when the block was left by an exception
exit_rolls_back_on_error(d, exc_type) ==
    IF exc_type = "none" THEN Outcome(close(d).d, "none", <<>>)
    ELSE Outcome(close_without_commit(d).d, "none", <<>>)

\* __exit__(exc_type, exc_value, traceback): exc_type is "none" when the
\* block ended normally; the method returns None, so the exception goes on
exit(d, exc_type) == Outcome(close(d).d, "none", <<>>)

(***************************************************************************)
(* main.py: the price tables and calculate_cost.  Amounts of money are     *)
(* kept in thousandths of a pound while they are computed and in           *)
(* hundredths once round(x, 2) has been applied; rates are in thousandths. *)
(***************************************************************************)
PHONE_TYPES == <<<<"Basic", 250>>, <<"Standard", 450>>, <<"Superior", 950>>>>

\* 0.2, in thousandths
VAT_RATE == 200

OPTION_A == 1

OPTION_B == 2

OPTION_NULL == 3

PhoneOptions == {OPTION_A, OPTION_B, OPTION_NULL}

\* round(x, 2) of an amount given in thousandths: hundredths, ties to even
Round2(th) ==
    LET q == th \div 10
        r == th % 10
    IN  IF r < 5 THEN q
        ELSE IF r > 5 THEN q + 1
        ELSE IF q % 2 = 0 THEN q ELSE q + 1

\* int(x) succeeds on an integer and on a string that is a numeral
CanInt(v) == v.t = "int" \/ (v.t = "text" /\ IsNumeral(v.s))

ToInt(v) == IF v.t = "int" THEN v.n ELSE NumeralValue(v.s)

\* calculate_cost that charges the option once per order
calculate_cost_flat_setup(phone_type, quantity, options) ==
    LET known == \E i \in 1..Len(PHONE_TYPES) : PHONE_TYPES[i][1] = phone_type
        base_cost == PHONE_TYPES[CHOOSE i \in 1..Len(PHONE_TYPES) :
                                    PHONE_TYPES[i][1] = phone_type][2]
        q == ToInt(quantity)
        o == ToInt(options)
        setup_cost == IF o = OPTION_A THEN 30 ELSE IF o = OPTION_B THEN 50 ELSE 0
        total_cost_before_vat == base_cost * q + setup_cost
        vat == total_cost_before_vat * VAT_RATE
        total_cost_with_vat == total_cost_before_vat * 1000 + vat
    IN  IF ~known THEN [exc |-> "ValueError", ret |-> <<>>]
        ELSE IF ~CanInt(quantity) \/ ~CanInt(options)
             THEN [exc |-> "ValueError", ret |-> <<>>]
        ELSE IF o \notin PhoneOptions THEN [exc |-> "KeyError", ret |-> <<>>]
        ELSE [exc |-> "none",
              ret |-> <<RealV(Round2(total_cost_before_vat * 1000)),
                        RealV(Round2(vat)),
                        RealV(Round2(total_cost_with_vat))>>]

\* calculate_cost that takes an unlisted option code as "no option"
calculate_cost_default_option(phone_type, quantity, options) ==
    LET known == \E i \in 1..Len(PHONE_TYPES) : PHONE_TYPES[i][1] = phone_type
        base_cost == PHONE_TYPES[CHOOSE i \in 1..Len(PHONE_TYPES) :
                                    PHONE_TYPES[i][1] = phone_type][2]
        q == ToInt(quantity)
        o == ToInt(options)
        setup_cost == IF o = OPTION_A THEN 30 ELSE IF o = OPTION_B THEN 50 ELSE 0
        total_cost_before_vat == (base_cost + setup_cost) * q
        vat == total_cost_before_vat * VAT_RATE
        total_cost_with_vat == total_cost_before_vat * 1000 + vat
    IN  IF ~known THEN [exc |-> "ValueError", ret |-> <<>>]
        ELSE IF ~CanInt(quantity) \/ ~CanInt(options)
             THEN [exc |-> "ValueError", ret |-> <<>>]
        ELSE [exc |-> "none",
              ret |-> <<RealV(Round2(total_cost_before_vat * 1000)),
                        RealV(Round2(vat)),
                        RealV(Round2(total_cost_with_vat))>>]

calculate_cost(phone_type, quantity, options) ==
    LET known == \E i \in 1..Len(PHONE_TYPES) : PHONE_TYPES[i][1] = phone_type
        base_cost == PHONE_TYPES[CHOOSE i \in 1..Len(PHONE_TYPES) :
                                    PHONE_TYPES[i][1] = phone_type][2]
        q == ToInt(quantity)
        o == ToInt(options)
        setup_cost == IF o = OPTION_A THEN 30 ELSE IF o = OPTION_B THEN 50 ELSE 0
        total_cost_before_vat == (base_cost + setup_cost) * q
        vat == total_cost_before_vat * VAT_RATE
        total_cost_with_vat == total_cost_before_vat * 1000 + vat
    IN  IF ~known THEN [exc |-> "ValueError", ret |-> <<>>]
        ELSE IF ~CanInt(quantity) \/ ~CanInt(options)
             THEN [exc |-> "ValueError", ret |-> <<>>]
        ELSE IF o \notin PhoneOptions THEN [exc |-> "KeyError", ret |-> <<>>]
        ELSE [exc |-> "none",
              ret |-> <<RealV(Round2(total_cost_before_vat * 1000)),
                        RealV(Round2(vat)),
                        RealV(Round2(total_cost_with_vat))>>]

(***************************************************************************)
(* main.py: the flows over the store.  Each flow builds its own Database   *)
(* object for the file and uses it in a with block.                        *)
(***************************************************************************)
Order(name, num, type, opt, qty) ==
    [company_name |-> name, company_num |-> num, smart_phone_type |-> type,
     selected_option |-> opt, quantity_num |-> qty]

InvoiceData_costs_swapped(o, vat, total_cost, total_with_vat) ==
    << <<"company_name", TextV(o.company_name)>>,
       <<"company_num", TextV(o.company_num)>>,
       <<"phone_type", TextV(o.smart_phone_type)>>,
       <<"phone_opt", IntV(o.selected_option)>>,
       <<"quantity", o.quantity_num>>,
       <<"vat", total_cost>>,
       <<"total_cost", vat>>,
       <<"total_cost_vat", total_with_vat>> >>

\* the dict insert_invoice builds from its arguments
InvoiceData(o, vat, total_cost, total_with_vat) ==
    << <<"company_name", TextV(o.company_name)>>,
       <<"company_num", TextV(o.company_num)>>,
       <<"phone_type", TextV(o.smart_phone_type)>>,
       <<"phone_opt", IntV(o.selected_option)>>,
       <<"quantity", o.quantity_num>>,
       <<"vat", vat>>,
       <<"total_cost", total_cost>>,
       <<"total_cost_vat", total_with_vat>> >>

insert_invoice(live, store, o, vat, total_cost, total_with_vat) ==
    Once(enter(NewDatabase(live, store)).d, LAMBDA db :
    Once(insert(db, InvoicesTable,
                InvoiceData(o, vat, total_cost, total_with_vat)), LAMBDA x :
    Outcome(exit(x.d, x.exc).d, x.exc, <<>>)))

\* the try block of handle_customer, entered with the answers of the prompts
handle_customer(live, store, o) ==
    Once(calculate_cost(o.smart_phone_type, o.quantity_num,
                        IntV(o.selected_option)), LAMBDA c :
    IF c.exc = "ValueError"
    THEN Outcome(NewDatabase(live, store), "none", <<>>)
    ELSE IF c.exc # "none"
         THEN Outcome(NewDatabase(live, store), c.exc, <<>>)
    ELSE Once(insert_invoice(live, store, o, c.ret[2], c.ret[1], c.ret[3]),
              LAMBDA x : IF x.exc = "ValueError"
                         THEN Outcome(x.d, "none", <<>>)
                         ELSE x))

read_all_invoices(live, store) ==
    Once(enter(NewDatabase(live, store)).d, LAMBDA db :
    Once(search(db, InvoicesTable, <<>>), LAMBDA x :
    Outcome(exit(x.d, x.exc).d, x.exc, x.ret)))

init_database(live, store) ==
    Once(enter(NewDatabase(live, store)).d, LAMBDA db :
    Once(CursorExecute(db, Stmt("create", InvoicesTable, <<>>, <<>>), <<>>),
         LAMBDA x :
    Outcome(exit(x.d, x.exc).d, x.exc, <<>>)))

(***************************************************************************)
(* Inputs.  The callers of the Database class and the prompts of the menu  *)
(* are outside the code modelled here; their arguments come from the sets  *)
(* below.                                                                  *)
(***************************************************************************)
\* limits of the quantity prompt (min_allowed, max_allowed)
MinQuantity == 5

MaxQuantity == 100

Names == {"acme", "company_name"}

PhoneNames == {PHONE_TYPES[i][1] : i \in 1..Len(PHONE_TYPES)}

\* the phone number each company gives
NumOf(name) == IF name = "acme" THEN "07123456789" ELSE "447123456789"

\* answers the prompts of handle_customer can give
PromptOrders ==
    {Order(n, NumOf(n), "Standard", OPTION_A, TextV("10")) : n \in Names}

\* a complete row as a caller of insert would pass it
RowData(name, num) ==
    InvoiceData(Order(name, num, "Basic", OPTION_NULL, IntV(5)),
                RealV(25000), RealV(125000), RealV(150000))

\* the calls of insert: complete rows, a row without its NOT NULL columns,
\* an empty dict, a table that does not exist
InsertCalls ==
    {<<InvoicesTable, RowData(n, NumOf(n))>> : n \in Names}
    \cup {<<InvoicesTable, << <<"company_name", TextV("acme")>> >> >>,
          <<InvoicesTable, <<>> >>,
          <<"orders", RowData("acme", NumOf("acme"))>>}

WhereInputs ==
    {<< <<"company_name", TextV(n)>> >> : n \in Names}
    \cup {<< <<"phone_type", TextV("Basic")>>, <<"quantity", TextV("5")>> >>,
          << <<"phone_type", TextV("Basic")>>,
             <<"company_num", TextV(NumOf("acme"))>> >>}

SearchCalls ==
    {<<InvoicesTable, w>> : w \in WhereInputs \cup {<<>>}}
    \cup {<<InvoicesTable, << <<"colour", TextV("red")>> >> >>,
          <<"orders", <<>> >>}

DeleteCalls ==
    {<<InvoicesTable, w>> : w \in WhereInputs \cup {<<>>}}
    \cup {<<"orders", << <<"company_name", TextV("acme")>> >> >>}

UpdateInputs ==
    {<< <<"phone_type", TextV("Superior")>> >>,
     << <<"company_name", TextV("acme")>>, <<"quantity", IntV(10)>> >>}

UpdateCalls ==
    {<<InvoicesTable, u, w>> : u \in UpdateInputs, w \in WhereInputs}
    \cup {<<InvoicesTable, <<>>, << <<"company_name", TextV("acme")>> >> >>}

QueryInputs ==
    {<<Stmt("select", InvoicesTable, <<>>, <<"quantity">>), <<IntV(5)>> >>,
     <<Stmt("select", InvoicesTable, <<>>, <<"quantity">>), <<>> >>,
     <<Stmt("syntax error", InvoicesTable, <<>>, <<>>), <<>> >>}

(***************************************************************************)
(* State.                                                                  *)
(***************************************************************************)
VARIABLES connection, cursor, live, work, store, scope, last

vars == <<connection, cursor, live, work, store, scope, last>>

\* the Database object the callers share, with what it acts on
Db == [connection |-> connection, cursor |-> cursor, live |-> live,
       work |-> work, store |-> store]

Args(table, data, where) == [table |-> table, data |-> data, where |-> where]

NoArgs == Args("", <<>>, <<>>)

\* what held when the call began
Pre == [open |-> connection # None, pending |-> work # store]

Call(op, arg, exc, ret) ==
    [op |-> op, arg |-> arg, pre |-> Pre, exc |-> exc, ret |-> ret]

Init ==
    /\ connection = None
    /\ cursor = None
    /\ live = {}
    /\ work = NoTable
    /\ store = NoTable
    /\ scope = "out"
    /\ last = [op |-> "init", arg |-> NoArgs,
               pre |-> [open |-> FALSE, pending |-> FALSE],
               exc |-> "none", ret |-> <<>>]

\* the handle and the store after a call on the shared Database object
Becomes(d) ==
    /\ connection' = d.connection
    /\ cursor' = d.cursor
    /\ live' = d.live
    /\ work' = d.work
    /\ store' = d.store

\* a call made by the code that holds the handle; inside a with block an
\* exception ends the block
Apply(op, arg, x) ==
    /\ scope # "raised"
    /\ Cardinality(x.d.live) <= MaxConn
    /\ Becomes(x.d)
    /\ scope' = IF scope = "in" /\ x.exc # "none" THEN "raised" ELSE scope
    /\ last' = Call(op, arg, x.exc, x.ret)

Open == \E x \in {open(Db)} : Apply("open", NoArgs, x)

Close == \E x \in {close(Db)} : Apply("close", NoArgs, x)

Commit == \E x \in {commit(Db)} : Apply("commit", NoArgs, x)

Insert ==
    \E c \in InsertCalls : \E x \in {insert(Db, c[1], c[2])} :
        /\ x.d.work.seq <= MaxId
        /\ Apply("insert", Args(c[1], c[2], <<>>), x)

Query ==
    \E q \in QueryInputs : \E x \in {query(Db, q[1], q[2])} :
        Apply("query", Args(q[1].table, q[2], q[1].where), x)

Search ==
    \E c \in SearchCalls : \E x \in {search(Db, c[1], c[2])} :
        Apply("search", Args(c[1], <<>>, c[2]), x)

Delete ==
    \E c \in DeleteCalls : \E x \in {delete(Db, c[1], c[2])} :
        Apply("delete", Args(c[1], <<>>, c[2]), x)

Update ==
    \E c \in UpdateCalls : \E x \in {update(Db, c[1], c[2], c[3])} :
        Apply("update", Args(c[1], c[2], c[3]), x)

\* with db: ...   entry of the block
Enter ==
    /\ scope = "out"
    /\ \E x \in {enter(Db)} : Becomes(x.d)
    /\ scope' = "in"
    /\ last' = Call("__enter__", NoArgs, "none", <<>>)

\* the block is left, at its end or by the exception raised inside it; the
\* exception, when there is one, goes on to the caller
Exit ==
    /\ scope \in {"in", "raised"}
    /\ LET exc_type == IF scope = "raised" THEN last.exc ELSE "none"
       IN  /\ \E x \in {exit(Db, exc_type)} : Becomes(x.d)
           /\ last' = Call("__exit__", NoArgs, exc_type, <<>>)
    /\ scope' = "out"

\* a flow of main.py runs when no other code holds a connection
Idle == connection = None /\ scope = "out"

Flow(op, arg, x) ==
    /\ Idle
    /\ connection' = None
    /\ cursor' = None
    /\ live' = x.d.live
    /\ work' = x.d.work
    /\ store' = x.d.store
    /\ scope' = "out"
    /\ last' = Call(op, arg, x.exc, x.ret)

InitDatabase ==
    \E x \in {init_database(live, store)} : Flow("init_database", NoArgs, x)

HandleCustomer ==
    \E o \in PromptOrders : \E x \in {handle_customer(live, store, o)} :
        /\ x.d.store.seq <= MaxId
        /\ Flow("handle_customer", o, x)

ReadAllInvoices ==
    \E x \in {read_all_invoices(live, store)} :
        Flow("read_all_invoices", NoArgs, x)

Next ==
    \/ Open
    \/ Close
    \/ Commit
    \/ Insert
    \/ Query
    \/ Search
    \/ Delete
    \/ Update
    \/ Enter
    \/ Exit
    \/ InitDatabase
    \/ HandleCustomer
    \/ ReadAllInvoices

Spec == Init /\ [][Next]_vars

(***************************************************************************)
(* The calculator and the invoice flow on their own, with arguments beyond *)
(* those the prompts can give.  A run starts where the menu loop starts    *)
(* (main has run init_database on a new file) with one call about to be    *)
(* made, and makes it.                                                     *)
(***************************************************************************)
CalcTypes == PhoneNames \cup {"Unknown"}

CalcQuantities ==
    {IntV(q) : q \in MinQuantity..MaxQuantity}
    \cup {TextV(ToString(q)) : q \in MinQuantity..MaxQuantity}

CalcOptions == {IntV(o) : o \in 1..4} \cup {TextV("2")}

CoreOrders ==
    {Order("acme", NumOf("acme"), t, o, q) :
        t \in CalcTypes, o \in 1..4, q \in {TextV("5"), IntV(100)}}

CalcArgs(phone_type, quantity, options) ==
    [phone_type |-> phone_type, quantity |-> quantity, options |-> options]

\* a call about to be made with the arguments arg
Pending(op, arg) ==
    [op |-> op, arg |-> arg, pre |-> [open |-> FALSE, pending |-> FALSE],
     exc |-> "none", ret |-> <<>>]

InitCalc ==
    /\ connection = None
    /\ cursor = None
    /\ live = {}
    /\ work = EmptyTable
    /\ store = EmptyTable
    /\ scope = "out"
    /\ last \in {Pending("call calculate_cost", CalcArgs(t, q, o)) :
                    t \in CalcTypes, q \in CalcQuantities, o \in CalcOptions}
                \cup {Pending("call handle_customer", o) : o \in CoreOrders}

CalculateCost ==
    /\ last.op = "call calculate_cost"
    /\ \E x \in {calculate_cost(last.arg.phone_type, last.arg.quantity,
                                  last.arg.options)} :
          last' = Call("calculate_cost", last.arg, x.exc, x.ret)
    /\ UNCHANGED <<connection, cursor, live, work, store, scope>>

CreateInvoice ==
    /\ last.op = "call handle_customer"
    /\ \E x \in {handle_customer(live, store, last.arg)} :
          Flow("handle_customer", last.arg, x)

NextCalc ==
    \/ CalculateCost
    \/ CreateInvoice

SpecCalc == InitCalc /\ [][NextCalc]_vars

(***************************************************************************)
(* The program as main runs it: init_database when the process starts,     *)
(* then the menu loop of input_invoice, one choice at a time.  An          *)
(* exception that leaves a flow leaves the loop and main, which ends the   *)
(* process; the file stays and the program can be started again.           *)
(***************************************************************************)
\* the flows of main.py
FlowOps == {"init_database", "handle_customer", "read_all_invoices"}

\* answers the quantity prompt can give: its limits and a number between
MenuQuantities == {TextV(ToString(q)) : q \in {MinQuantity, 7, MaxQuantity}}

\* answers the prompts of handle_customer can give, a phone number not tied
\* to the company
MenuOrders ==
    {Order(n, NumOf(m), t, c, q) :
        n \in Names, m \in Names, t \in {"Basic", "Superior"},
        c \in {OPTION_B, OPTION_NULL}, q \in MenuQuantities}

\* the menu loop is running: main has started and no flow has raised
Running == last.op \in FlowOps /\ last.exc = "none"

Main ==
    \E x \in {init_database(live, store)} : Flow("init_database", NoArgs, x)

ChooseRead ==
    /\ Running
    /\ \E x \in {read_all_invoices(live, store)} :
          Flow("read_all_invoices", NoArgs, x)

ChooseCreate ==
    /\ Running
    /\ \E o \in MenuOrders : \E x \in {handle_customer(live, store, o)} :
          /\ x.d.store.seq <= MaxId
          /\ Flow("handle_customer", o, x)

NextMenu ==
    \/ Main
    \/ ChooseRead
    \/ ChooseCreate

SpecMenu == Init /\ [][NextMenu]_vars

(***************************************************************************)
(* Properties.  `last` describes the call that produced the current state, *)
(* so a step of a given method is one after which last.op names it.        *)
(***************************************************************************)
Closed == connection = None /\ cursor = None

\* the row holds, column by column, the values of the dict
RowHas(r, data) ==
    \A i \in 1..Len(data) :
        data[i][1] \in ColumnSet /\ SqlEq(data[i][1], r[data[i][1]], data[i][2])

\* C1: once a with block over a Database has been left, at its end or by an
\* exception raised inside it, the handle is Closed and no connection is
\* alive; the same holds after each flow of main.py, which is such a block.
C1_ScopeNeverLeaks ==
    last.op \in {"__exit__", "handle_customer", "read_all_invoices",
                 "init_database"}
        => Closed /\ live = {} /\ scope = "out"

\* a block left by an exception while the handle was open
C1_Witness ==
    /\ last.op = "__exit__"
    /\ last.exc # "none"
    /\ last.pre.open

\* C2: open() (also as the entry of a with block) on an Open handle raises
\* nothing and keeps the connection and the cursor; at most one connection
\* is alive, and exactly one after open().
C2_OpenIdempotent ==
    [][/\ (last'.op \in {"open", "__enter__"} /\ connection # None)
            => /\ last'.exc = "none"
               /\ connection' = connection
               /\ cursor' = cursor
               /\ live' = live
       /\ last'.op \in {"open", "__enter__"} => Cardinality(live') = 1]_vars

\* open() was called on an Open handle
C2_Witness ==
    /\ last.op = "open"
    /\ last.pre.open
    /\ connection # None

\* C3: close() on an Open handle makes the pending contents the committed
\* ones, releases connection and cursor, and a later open() on the Closed
\* handle yields a connection with its cursor that sees the committed
\* contents; close() on a Closed handle raises nothing and changes nothing.
C3_CloseCommitsAndResets ==
    [][/\ (last'.op = "close" /\ connection # None)
            => /\ last'.exc = "none"
               /\ store' = work
               /\ Closed'
               /\ live' = live \ {connection}
       /\ (last'.op = "close" /\ connection = None)
            => /\ last'.exc = "none"
               /\ UNCHANGED <<connection, cursor, live, work, store>>
       /\ (last'.op = "open" /\ connection = None)
            => /\ connection' # None
               /\ cursor' = connection'
               /\ connection' \in live'
               /\ work' = store]_vars

\* close() was called on an Open handle with uncommitted changes
C3_Witness ==
    /\ last.op = "close"
    /\ last.pre.open
    /\ last.pre.pending

\* C4: after insert returned, the committed contents are the contents the
\* connection sees and hold a row, not there before, with the dict's values.
C4_InsertAutoCommits ==
    [][(last'.op = "insert" /\ last'.exc = "none")
          => /\ store' = work'
             /\ \E r \in store'.rows :
                   r \notin work.rows /\ RowHas(r, last'.arg.data)]_vars

\* insert returned on an Open handle
C4_Witness ==
    /\ last.op = "insert"
    /\ last.exc = "none"
    /\ last.pre.open
    /\ store.rows # {}

\* the execution of the INSERT statement of insert(table, data) fails
InsertExecutionFails(table, data) ==
    CursorExecute(Db, Stmt("insert", table, Keys(data), <<>>),
                  Values(data)).exc # "none"

\* C5: when the execution inside insert fails, insert raises, and neither
\* the contents the connection sees nor the committed contents change.
C5_InsertFailureSurfaces ==
    [][(last'.op = "insert"
          /\ InsertExecutionFails(last'.arg.table, last'.arg.data))
          => /\ last'.exc # "none"
             /\ work' = work
             /\ store' = store]_vars

\* insert failed on a constraint of a table that holds rows
C5_Witness ==
    /\ last.op = "insert"
    /\ last.exc = "IntegrityError"
    /\ work.rows # {}

\* the methods that call commit() on the handle
CommittingOps == {"commit", "close", "__exit__", "insert"}

\* the flows of main.py, each with a handle of its own

\* C6: update and delete leave the committed contents as they were; a later
\* commit() or close() on the Open handle makes the pending contents the
\* committed ones; and the committed contents change in no step other than
\* one that calls commit().
C6_UpdateDeleteNotAutoCommitted ==
    [][/\ last'.op \in {"update", "delete"} => store' = store
       /\ (last'.op \in {"commit", "close", "__exit__"} /\ connection # None)
            => store' = work
       /\ store' # store => last'.op \in CommittingOps \cup FlowOps]_vars

\* update returned and its change is pending
C6_Witness ==
    /\ last.op = "update"
    /\ last.exc = "none"
    /\ work.rows # store.rows

\* C7: delete removes exactly the rows in which every column of the where
\* mapping equals the mapped value.
C7_DeleteBindsValues ==
    [][(last'.op = "delete" /\ last'.exc = "none"
          /\ Len(last'.arg.where) > 0)
          => work'.rows =
                {r \in work.rows : ~RowHas(r, last'.arg.where)}]_vars

\* C8: search returns, once each, the rows of the table in which every
\* filtered column equals the given value; all rows for an empty filter.
C8_SearchReturnsMatches ==
    (last.op = "search" /\ last.exc = "none")
        => /\ Range(last.ret) =
                 {r \in work.rows : RowHas(r, last.arg.where)}
           /\ Len(last.ret) = Cardinality(Range(last.ret))
           /\ Len(last.arg.where) = 0 => Range(last.ret) = work.rows

\* a filter that selected some rows of the table and rejected others
C8_Witness ==
    /\ last.op = "search"
    /\ last.exc = "none"
    /\ Len(last.arg.where) > 0
    /\ Len(last.ret) > 0
    /\ Len(last.ret) < Cardinality(work.rows)

\* the price and the surcharge as the claim lists them
ListedPrice(t) == IF t = "Basic" THEN 250 ELSE IF t = "Standard" THEN 450 ELSE 950

ListedSurcharge(o) == IF o = 1 THEN 30 ELSE IF o = 2 THEN 50 ELSE 0

\* the arguments are a known phone type, an option code 1..3 and a quantity
ValidCalcArgs(a) ==
    /\ a.phone_type \in {"Basic", "Standard", "Superior"}
    /\ CanInt(a.options) /\ ToInt(a.options) \in 1..3
    /\ CanInt(a.quantity) /\ ToInt(a.quantity) \in MinQuantity..MaxQuantity

\* C9: for valid arguments calculate_cost returns (subtotal, vat, total),
\* in hundredths: subtotal = (price + surcharge) * quantity, vat is a fifth
\* of the subtotal and total is their sum; the two examples hold.
C9_CostIsPriceTimesQuantityPlusVat ==
    /\ (last.op = "calculate_cost" /\ ValidCalcArgs(last.arg))
          => /\ last.exc = "none"
             /\ Len(last.ret) = 3
             /\ \A i \in 1..3 : last.ret[i].t = "real"
             /\ last.ret[1].n = (ListedPrice(last.arg.phone_type)
                                 + ListedSurcharge(ToInt(last.arg.options)))
                                * ToInt(last.arg.quantity) * 100
             /\ last.ret[2].n * 5 = last.ret[1].n
             /\ last.ret[3].n = last.ret[1].n + last.ret[2].n
    /\ (last.op = "calculate_cost"
          /\ last.arg = CalcArgs("Basic", IntV(10), IntV(3)))
          => last.ret = <<RealV(250000), RealV(50000), RealV(300000)>>
    /\ (last.op = "calculate_cost"
          /\ last.arg = CalcArgs("Superior", IntV(5), IntV(1)))
          => last.ret = <<RealV(490000), RealV(98000), RealV(588000)>>

\* calculate_cost("Superior", 5, 1) has returned
C9_Witness ==
    /\ last.op = "calculate_cost"
    /\ last.arg = CalcArgs("Superior", IntV(5), IntV(1))
    /\ last.exc = "none"

\* C10: calculate_cost with an unknown phone type or option code raises and
\* returns nothing, and handle_customer entered with such a type or code
\* leaves the store as it was.
C10_InvalidInputFailsBeforePersistence ==
    [][/\ (last'.op = "calculate_cost"
             /\ (last'.arg.phone_type \notin PhoneNames
                 \/ ToInt(last'.arg.options) \notin PhoneOptions))
            => last'.exc # "none" /\ last'.ret = <<>>
       /\ (last'.op = "handle_customer"
             /\ (last'.arg.smart_phone_type \notin PhoneNames
                 \/ last'.arg.selected_option \notin PhoneOptions))
            => store' = store /\ work' = work /\ live' = {}]_vars

\* handle_customer ran with an option code outside the table
C10_Witness ==
    /\ last.op = "handle_customer"
    /\ last.arg.smart_phone_type \in PhoneNames
    /\ last.arg.selected_option \notin PhoneOptions
    /\ store.rows = {}


\* the rows a listing of the file returns
Listed(lv, st) == Range(read_all_invoices(lv, st).ret)

\* rows of the table that carry the company name
RowsNamed(rows, name) == {r \in rows : r["company_name"] = TextV(name)}

\* C11: the table never holds two rows with one company name; creating an
\* invoice for a company that already has one fails with the uniqueness
\* violation (IntegrityError), and the listing still returns the rows that
\* were there, unchanged, and no other row.
C11_CompanyNameUnique ==
    /\ [](\A r \in store.rows : \A q \in store.rows :
              r["company_name"] = q["company_name"] => r = q)
    /\ [][(/\ last'.op = "handle_customer"
           /\ RowsNamed(store.rows, last'.arg.company_name) # {})
            => /\ last'.exc = "IntegrityError"
               /\ store' = store
               /\ Listed(live', store') = store.rows]_vars

\* a second invoice for a company, with a phone number no invoice has
C11_Witness ==
    /\ last.op = "handle_customer"
    /\ last.exc = "IntegrityError"
    /\ RowsNamed(store.rows, last.arg.company_name) # {}
    /\ \A r \in store.rows : r["company_num"] # TextV(last.arg.company_num)

\* C12: an invoice for a company that already has one is reported inside
\* the creation flow: handle_customer returns without an exception and the
\* menu loop goes on.
C12_DuplicateIsNotFatal ==
    [][(/\ last'.op = "handle_customer"
        /\ RowsNamed(store.rows, last'.arg.company_name) # {})
            => last'.exc = "none" /\ Running']_vars

\* the record handle_customer hands to insert_invoice for the answers o
Computed(o) ==
    Once(calculate_cost(o.smart_phone_type, o.quantity_num,
                        IntV(o.selected_option)).ret, LAMBDA c :
    << <<"company_name", TextV(o.company_name)>>,
       <<"company_num", TextV(o.company_num)>>,
       <<"phone_type", TextV(o.smart_phone_type)>>,
       <<"phone_opt", IntV(o.selected_option)>>,
       <<"quantity", o.quantity_num>>,
       <<"total_cost", c[1]>>,
       <<"vat", c[2]>>,
       <<"total_cost_vat", c[3]>> >>)

StatementOps == {"insert", "query", "search", "delete", "update"}

\* C14: the handle has the connection exactly when it has the cursor; it
\* goes from Closed to Open only in open() (also as the entry of a with
\* block) and from Open to Closed only in close() (also as the exit of a
\* with block); no other method changes the connection or the cursor.
C14_HandleStates ==
    /\ []((connection = None) <=> (cursor = None))
    /\ [][/\ (connection = None /\ connection' # None)
                => last'.op \in {"open", "__enter__"}
          /\ (connection # None /\ connection' = None)
                => last'.op \in {"close", "__exit__"}
          /\ (connection' # connection \/ cursor' # cursor)
                => (connection = None \/ connection' = None)
          /\ last'.op \in StatementOps \cup {"commit"}
                => connection' = connection /\ cursor' = cursor]_vars

\* a statement failed on an Open handle, which stays Open
C14_Witness ==
    /\ last.op \in StatementOps
    /\ last.exc # "none"
    /\ last.pre.open
    /\ connection # None

\* the row with the values of the mapping assigned to its columns
Assigned(r, data) ==
    [c \in ColumnSet |->
        IF \E i \in 1..Len(data) : data[i][1] = c
        THEN LET i == CHOOSE i \in 1..Len(data) : data[i][1] = c
             IN  ApplyAffinity(Affinity(c), data[i][2])
        ELSE r[c]]

\* C15: update(table, set, where) that returns assigns the values of set to
\* its columns in exactly the rows that match where, and leaves every other
\* row and every other column as it was.
C15_UpdateAssignsMatchingRows ==
    [][(last'.op = "update" /\ last'.exc = "none")
            => /\ work'.rows = {IF RowHas(r, last'.arg.where)
                                THEN Assigned(r, last'.arg.data)
                                ELSE r : r \in work.rows}
               /\ work'.seq = work.seq
               /\ work'.exists = work.exists]_vars

\* update changed one row and left another
C15_Witness ==
    /\ last.op = "update"
    /\ last.exc = "none"
    /\ \E r \in work.rows : r \in store.rows
    /\ \E r \in work.rows : r \notin store.rows

\* C16: init_database on a file that has the table raises nothing, leaves
\* the rows as they were and leaves no connection open.
C16_InitDatabaseIdempotent ==
    [][last'.op = "init_database"
            => /\ last'.exc = "none"
               /\ store'.exists
               /\ store.exists => store' = store
               /\ Closed'
               /\ live' = {}]_vars

\* the program was started again on a file that holds invoices
C16_Witness ==
    /\ last.op = "init_database"
    /\ store.rows # {}

\* C17: every row the creation flow stored has a quantity from 5 to 100
\* that is a multiple of 5.
C17_QuantityMultipleOfFive ==
    \A r \in store.rows :
        /\ r["quantity"].t = "int"
        /\ MinQuantity <= r["quantity"].n
        /\ r["quantity"].n <= MaxQuantity
        /\ r["quantity"].n % 5 = 0

\* C18: a with block left by an exception still commits: what update and
\* delete changed before the failure is durable once the block is left.
C18_FailedScopeCommits ==
    [][(last'.op = "__exit__" /\ last'.exc # "none" /\ connection # None)
            => store' = work /\ work' = work]_vars

\* a block with a pending change was left by an exception
C18_Witness ==
    /\ last.op = "__exit__"
    /\ last.exc # "none"
    /\ last.pre.open
    /\ last.pre.pending

\* C19: insert that returns commits the whole transaction of the
\* connection: the changes update and delete left pending are durable with
\* the new row.
C19_InsertCommitsPending ==
    [][(last'.op = "insert" /\ last'.exc = "none")
            => /\ work.rows \subseteq store'.rows
               /\ Cardinality(store'.rows) = Cardinality(work.rows) + 1
               /\ \A r \in store.rows \ work.rows : r \notin store'.rows]_vars

\* insert returned on a handle that had a change pending
C19_Witness ==
    /\ last.op = "insert"
    /\ last.exc = "none"
    /\ last.pre.pending

\* C20: insert, query, search, update and delete on a Closed handle raise,
\* and commit() on a Closed handle returns without raising; each leaves the
\* handle Closed, connects nothing and leaves the store as it was.
C20_NoImplicitOpen ==
    [][(connection = None /\ last'.op \in StatementOps \cup {"commit"})
            => /\ (last'.op = "commit") <=> (last'.exc = "none")
               /\ Closed'
               /\ live' = live
               /\ store' = store
               /\ work' = work]_vars

\* a statement was tried on a Closed handle of a file that holds a row
C20_Witness ==
    /\ last.op \in StatementOps
    /\ ~last.pre.open
    /\ last.exc = "AttributeError"
    /\ store.rows # {}

====
